---- MODULE Spec2Model ----
(***************************************************************************)
(* A model of data-enhancement/data_enhancer.py: the benchmark table, the  *)
(* keyword classifier, the estimators, the row-wise fill pass of           *)
(* enhance_csv_data, the report generator and main.                        *)
(*                                                                         *)
(* Text is a sequence of characters.  The Chinese characters of the      *)
(* source are written as ASCII tokens, one token per character (the two    *)
(* characters read "hang" and the two read "ji" get distinct tokens).      *)
(* A table cell is <<>> when it is NaN and <<v>> when it holds v.          *)
(* Money is an integer; a ratio of the benchmark table is kept in percent. *)
(* Arithmetic is exact: the float rounding of the source is not modelled,  *)
(* and the sampled revenues are multiples of 100, so that every product    *)
(* with a percentage is an integer.                                        *)
(***************************************************************************)
EXTENDS Integers, Sequences, FiniteSets, TLC

VARIABLES
    argv,   \* sys.argv[1:], a sequence of paths
    fs,     \* the file system: path -> file content
    pc,     \* position of the process: main, loop, raised, report, exit0, exit1
    df,     \* the DataFrame of enhance_csv_data
    idx,    \* position of the iterrows() loop
    log,    \* enhancement_log
    run,    \* 1 for the first invocation, 2 for the one over its output
    call    \* a direct call of an estimator: its arguments and its result

vars == <<argv, fs, pc, df, idx, log, run, call>>

--------------------------------------------------------------------------
(* Bounds *)

MaxRows == 2

--------------------------------------------------------------------------
(* Text helpers: Python's  kw in s,  s.endswith(suf),  s.replace(old, new) *)

StrContains(s, kw) ==
    \E i \in 0..(Len(s) - Len(kw)) : SubSeq(s, i + 1, i + Len(kw)) = kw

StrEndsWith(s, suf) ==
    /\ Len(s) >= Len(suf)
    /\ SubSeq(s, Len(s) - Len(suf) + 1, Len(s)) = suf

StartsWith(s, pre) ==
    /\ Len(s) >= Len(pre)
    /\ SubSeq(s, 1, Len(pre)) = pre

RECURSIVE StrReplace(_, _, _)
StrReplace(s, old, new) ==
    IF s = <<>> THEN <<>>
    ELSE IF StartsWith(s, old)
         THEN new \o StrReplace(SubSeq(s, Len(old) + 1, Len(s)), old, new)
         ELSE <<Head(s)>> \o StrReplace(Tail(s), old, new)

--------------------------------------------------------------------------
(* Cells: pandas NaN and pd.isna *)

NaN == <<>>

Cell(v) == <<v>>

isna(c) == c = NaN

ValueOf(c) == c[1]

--------------------------------------------------------------------------
(* __init__: the benchmark table (ratios in percent) *)

ShangMaoLingShou == "ShangMaoLingShou"   \* retail / trade
ZhiZaoYe == "ZhiZaoYe"                   \* manufacturing
JinRongYe == "JinRongYe"                 \* finance
KeJiQiYe == "KeJiQiYe"                   \* technology
JiaoTongYunShu == "JiaoTongYunShu"       \* transportation

industry_benchmarks ==
    [g \in {ShangMaoLingShou, ZhiZaoYe, JinRongYe, KeJiQiYe, JiaoTongYunShu} |->
        CASE g = ShangMaoLingShou ->
                [roe |-> 12, roa |-> 8, debt_ratio |-> 45,
                 employee_per_million_revenue |-> 25, profit_margin |-> 8]
          [] g = ZhiZaoYe ->
                [roe |-> 15, roa |-> 10, debt_ratio |-> 55,
                 employee_per_million_revenue |-> 15, profit_margin |-> 12]
          [] g = JinRongYe ->
                [roe |-> 18, roa |-> 6, debt_ratio |-> 85,
                 employee_per_million_revenue |-> 8, profit_margin |-> 25]
          [] g = KeJiQiYe ->
                [roe |-> 20, roa |-> 12, debt_ratio |-> 35,
                 employee_per_million_revenue |-> 12, profit_margin |-> 18]
          [] g = JiaoTongYunShu ->
                [roe |-> 10, roa |-> 5, debt_ratio |-> 60,
                 employee_per_million_revenue |-> 20, profit_margin |-> 6]]

GroupNames == DOMAIN industry_benchmarks

\* self.industry_benchmarks.get(industry_group, self.industry_benchmarks[default])
BenchmarkOf(industry_group) ==
    IF industry_group \in GroupNames
    THEN industry_benchmarks[industry_group]
    ELSE industry_benchmarks[ShangMaoLingShou]

--------------------------------------------------------------------------
(* classify_industry_group: the if / elif chain, in its order *)

ClassifyRules ==
    << [keywords |-> {<<"ling", "shou">>, <<"shang", "mao">>},
        group |-> ShangMaoLingShou],
       [keywords |-> {<<"zhi", "zao">>, <<"ji_machine", "xie">>, <<"hua", "gong">>},
        group |-> ZhiZaoYe],
       [keywords |-> {<<"jin", "rong">>, <<"zheng", "quan">>, <<"yin", "hang_bank">>},
        group |-> JinRongYe],
       [keywords |-> {<<"ke", "ji_skill">>, <<"ruan", "jian">>, <<"hu", "lian", "wang">>},
        group |-> KeJiQiYe],
       [keywords |-> {<<"yun", "shu">>, <<"hang_sail", "yun">>, <<"wu", "liu">>},
        group |-> JiaoTongYunShu] >>

RuleMatches(rule, industry_detail) ==
    \E kw \in rule.keywords : StrContains(industry_detail, kw)

classify_industry_group(industry_detail) ==
    LET hits == {i \in 1..Len(ClassifyRules) :
                    RuleMatches(ClassifyRules[i], industry_detail)}
    IN  IF hits = {}
        THEN ShangMaoLingShou
        ELSE ClassifyRules[CHOOSE i \in hits : \A j \in hits : i <= j].group

\* "kw" in x  raises TypeError when x is the float NaN of an empty cell
ClassifyRaises(label_cell) == isna(label_cell)

--------------------------------------------------------------------------
(* Estimators *)

Million == 1000000

FloorEmployees == 10

\* Python's int(): truncation toward zero of the quotient n / d, d > 0
IntTrunc(n, d) == IF n >= 0 THEN n \div d ELSE -((-n) \div d)

Max(a, b) == IF a >= b THEN a ELSE b

estimate_employees_nofloor(revenue, industry_group) ==
    IntTrunc(revenue * BenchmarkOf(industry_group).employee_per_million_revenue,
             Million)

estimate_employees(revenue, industry_group) ==
    LET benchmark == BenchmarkOf(industry_group)
        employee_per_million == benchmark.employee_per_million_revenue
    IN  Max(IntTrunc(revenue * employee_per_million, Million), FloorEmployees)

estimate_profit(revenue, industry_group) ==
    LET benchmark == BenchmarkOf(industry_group)
        profit_margin == benchmark.profit_margin
    IN  (revenue * profit_margin) \div 100

--------------------------------------------------------------------------
(* estimate_financial_ratios.  An argument is None, the float NaN or a     *)
(* number; a result is NaN or the exact fraction num / den.                *)

None == [kind |-> "None", v |-> 0]

NaNValue == [kind |-> "NaN", v |-> 0]

Num(n) == [kind |-> "num", v |-> n]

\* Python truth value: None and 0 are false, NaN and every other number true
Truthy(x) == x.kind = "NaN" \/ (x.kind = "num" /\ x.v /= 0)

Frac(n, d) == [kind |-> "frac", num |-> n, den |-> d]

NaNRatio == [kind |-> "NaN", num |-> 0, den |-> 1]

\* a / b for Python floats a, b with b a nonzero number or NaN
Divide(a, b) ==
    IF a.kind = "NaN" \/ b.kind = "NaN" THEN NaNRatio ELSE Frac(a.v, b.v)

estimate_financial_ratios(total_assets, net_profit, revenue, industry_group) ==
    LET benchmark == BenchmarkOf(industry_group)
        \* estimated_net_assets = total_assets * (1 - debt_ratio), times 100
        net_assets_positive ==
            total_assets.kind = "num"
            /\ total_assets.v * (100 - benchmark.debt_ratio) > 0
        roe ==
            IF Truthy(net_profit) /\ Truthy(total_assets)
            THEN IF net_assets_positive
                 THEN IF net_profit.kind = "NaN" THEN NaNRatio
                      ELSE Frac(net_profit.v * 100,
                                total_assets.v * (100 - benchmark.debt_ratio))
                 ELSE Frac(benchmark.roe, 100)
            ELSE Frac(benchmark.roe, 100)
        roa ==
            IF Truthy(net_profit) /\ Truthy(total_assets)
            THEN Divide(net_profit, total_assets)
            ELSE Frac(benchmark.roa, 100)
        total_asset_turnover ==
            IF Truthy(revenue) /\ Truthy(total_assets)
            THEN Divide(revenue, total_assets)
            ELSE Frac(1, 1)
    IN  [roe |-> roe, roa |-> roa,
         debt_ratio |-> Frac(benchmark.debt_ratio, 100),
         total_asset_turnover |-> total_asset_turnover]

RatioEq(a, b) ==
    /\ a.kind = b.kind
    /\ a.kind = "frac" => a.num * b.den = b.num * a.den

--------------------------------------------------------------------------
(* Tables and files *)

ColumnSet == {"industry_type", "revenue", "employee_count", "net_profit"}

Range(q) == {q[i] : i \in 1..Len(q)}

\* df.to_csv(output_file, index=False): NaN is written as the empty field
to_csv(table) ==
    [kind |-> "csv",
     body |-> [i \in 1..Len(table) |->
                 [c \in ColumnSet |->
                     IF isna(table[i][c])
                     THEN [empty |-> TRUE, text |-> <<>>]
                     ELSE [empty |-> FALSE, text |-> <<ValueOf(table[i][c])>>]]]]

\* pd.read_csv(input_file): the empty field is read as NaN
read_csv(file) ==
    [i \in 1..Len(file.body) |->
        [c \in ColumnSet |->
            IF file.body[i][c].empty THEN NaN ELSE Cell(file.body[i][c].text[1])]]

WriteFile(files, path, content) ==
    [p \in (DOMAIN files) \cup {path} |-> IF p = path THEN content ELSE files[p]]

\* for col in df.columns: df[col].isnull().sum(), kept when > 0
MissingCount(table, col) == Cardinality({i \in 1..Len(table) : isna(table[i][col])})

MissingCountPresent(table, col) ==
    Cardinality({i \in 1..Len(table) : ~isna(table[i][col])})

MissingCountsNotNull(table) ==
    [c \in {col \in ColumnSet : MissingCountPresent(table, col) > 0} |->
        MissingCountPresent(table, c)]

MissingCounts(table) ==
    [c \in {col \in ColumnSet : MissingCount(table, col) > 0} |->
        MissingCount(table, c)]

--------------------------------------------------------------------------
(* enhance_csv_data: one iteration of the iterrows() loop *)

MethodEmployees == "estimated from revenue and industry benchmark"

MethodProfit == "estimated from revenue and industry profit margin"

ShouldFillAnyway(row, field) == ~isna(row["revenue"])

\* pd.isna(row.get(field)) and not pd.isna(row.get('revenue'))
ShouldFill(row, field) == isna(row[field]) /\ ~isna(row["revenue"])

RecordEnhancedAlways(l, field, method) ==
    [l EXCEPT !.enhanced_fields = Append(@, field),
              !.enhancement_methods = (field :> method) @@ @]

\* if field not in enhanced_fields: append it and record its method
RecordEnhanced(l, field, method) ==
    IF field \in Range(l.enhanced_fields)
    THEN l
    ELSE [l EXCEPT !.enhanced_fields = Append(@, field),
                   !.enhancement_methods = (field :> method) @@ @]

EnhancedRow(row) ==
    LET industry_group == classify_industry_group(ValueOf(row["industry_type"]))
        row1 == IF ShouldFill(row, "employee_count")
                THEN [row EXCEPT !["employee_count"] =
                        Cell(estimate_employees(ValueOf(row["revenue"]), industry_group))]
                ELSE row
    IN  IF ShouldFill(row, "net_profit")
        THEN [row1 EXCEPT !["net_profit"] =
                Cell(estimate_profit(ValueOf(row["revenue"]), industry_group))]
        ELSE row1

LoggedRow(l, row) ==
    LET l1 == IF ShouldFill(row, "employee_count")
              THEN RecordEnhanced(l, "employee_count", MethodEmployees)
              ELSE l
    IN  IF ShouldFill(row, "net_profit")
        THEN RecordEnhanced(l1, "net_profit", MethodProfit)
        ELSE l1

EmptyLog ==
    [original_missing |-> <<>>, enhanced_fields |-> <<>>, enhancement_methods |-> <<>>]

--------------------------------------------------------------------------
(* Paths *)

DotCsv == <<".", "c", "s", "v">>

ReportSuffix ==
    <<"_", "e", "n", "h", "a", "n", "c", "e", "m", "e", "n", "t",
      "_", "r", "e", "p", "o", "r", "t", ".", "m", "d">>

InPath == <<"i", "n">> \o DotCsv

OutPath == <<"o", "u", "t">> \o DotCsv

SecondOutPath == <<"o", "u", "t", "2">> \o DotCsv

\* report_file = output_file.replace('.csv', '_enhancement_report.md')
ReportPath(output_file) == StrReplace(output_file, DotCsv, ReportSuffix)

--------------------------------------------------------------------------
(* main and the steps of enhance_csv_data *)

NoCall == [fn |-> "none"]

\* len(sys.argv) < 3: usage, sys.exit(1)
Usage ==
    /\ pc = "main"
    /\ Len(argv) < 2
    /\ pc' = "exit1"
    /\ UNCHANGED <<argv, fs, df, idx, log, run, call>>

\* not input_file.endswith('.csv'): error message, sys.exit(1)
Unsupported ==
    /\ pc = "main"
    /\ Len(argv) >= 2
    /\ ~StrEndsWith(argv[1], DotCsv)
    /\ pc' = "exit1"
    /\ UNCHANGED <<argv, fs, df, idx, log, run, call>>

\* df = pd.read_csv(input_file); the log with original_missing
ReadAndAnalyze ==
    /\ pc = "main"
    /\ Len(argv) >= 2
    /\ StrEndsWith(argv[1], DotCsv)
    /\ argv[1] \in DOMAIN fs
    /\ fs[argv[1]].kind = "csv"
    /\ df' = read_csv(fs[argv[1]])
    /\ log' = [EmptyLog EXCEPT !.original_missing = MissingCounts(df')]
    /\ idx' = 1
    /\ pc' = "loop"
    /\ UNCHANGED <<argv, fs, run, call>>

\* one row of the loop, its label a string
EnhanceRow ==
    /\ pc = "loop"
    /\ idx <= Len(df)
    /\ ~ClassifyRaises(df[idx]["industry_type"])
    /\ df' = [df EXCEPT ![idx] = EnhancedRow(df[idx])]
    /\ log' = LoggedRow(log, df[idx])
    /\ idx' = idx + 1
    /\ UNCHANGED <<argv, fs, pc, run, call>>

\* one row of the loop, its label NaN: the TypeError ends the process
RaiseTypeError ==
    /\ pc = "loop"
    /\ idx <= Len(df)
    /\ ClassifyRaises(df[idx]["industry_type"])
    /\ pc' = "raised"
    /\ UNCHANGED <<argv, fs, df, idx, log, run, call>>

\* df.to_csv(output_file); final_missing, total_records, improvement_summary
SaveAndSummarize ==
    /\ pc = "loop"
    /\ idx > Len(df)
    /\ fs' = WriteFile(fs, argv[2], to_csv(df))
    /\ log' = [final_missing |-> MissingCounts(df),
               total_records |-> Len(df),
               improvement_summary |->
                   [fields_enhanced |-> Len(log.enhanced_fields),
                    missing_reduction |->
                        Cardinality(DOMAIN log.original_missing)
                            - Cardinality(DOMAIN MissingCounts(df))]] @@ log
    /\ pc' = "report"
    /\ UNCHANGED <<argv, df, idx, run, call>>

\* the content generate_enhancement_report renders from the log
ReportOf(l) ==
    [kind |-> "md",
     body |-> << [total_records |-> l.total_records,
                  before |-> [c \in DOMAIN l.original_missing |->
                                 <<l.original_missing[c], l.total_records>>],
                  fields |-> [i \in 1..Len(l.enhanced_fields) |->
                                 <<l.enhanced_fields[i],
                                   l.enhancement_methods[l.enhanced_fields[i]]>>],
                  after |-> [c \in DOMAIN l.final_missing |->
                                <<l.final_missing[c], l.total_records>>],
                  fields_enhanced |-> l.improvement_summary.fields_enhanced,
                  missing_reduction |-> l.improvement_summary.missing_reduction] >>]

\* generate_enhancement_report(log, report_file), then main returns
GenerateReport ==
    /\ pc = "report"
    /\ fs' = WriteFile(fs, ReportPath(argv[2]), ReportOf(log))
    /\ pc' = "exit0"
    /\ UNCHANGED <<argv, df, idx, log, run, call>>

\* the tool is invoked again, over the output of the first invocation
RunAgain ==
    /\ pc = "exit0"
    /\ run = 1
    /\ argv' = <<argv[2], SecondOutPath>>
    /\ run' = 2
    /\ pc' = "main"
    /\ df' = <<>>
    /\ idx' = 0
    /\ log' = EmptyLog
    /\ UNCHANGED <<fs, call>>

Next ==
    \/ Usage
    \/ Unsupported
    \/ ReadAndAnalyze
    \/ EnhanceRow
    \/ RaiseTypeError
    \/ SaveAndSummarize
    \/ GenerateReport
    \/ RunAgain

--------------------------------------------------------------------------
(* Inputs of the enhancer: every table of at most MaxRows rows over the    *)
(* sampled cells                                                           *)

SoftwareLabel == <<"ruan", "jian", "kai", "fa">>

CateringLabel == <<"can", "yin">>

LabelCells == {NaN, Cell(SoftwareLabel), Cell(CateringLabel)}

RevenueCells == {NaN, Cell(10000000), Cell(1070000)}

EmployeeCells == {NaN, Cell(37)}

ProfitCells == {NaN, Cell(-5000)}

RowDomain ==
    [industry_type : LabelCells, revenue : RevenueCells,
     employee_count : EmployeeCells, net_profit : ProfitCells]

Tables == UNION {[1..n -> RowDomain] : n \in 0..MaxRows}

JsonPath == <<"i", "n", ".", "j", "s", "o", "n">>

Idle ==
    /\ pc = "main"
    /\ df = <<>>
    /\ idx = 0
    /\ log = EmptyLog
    /\ run = 1
    /\ call = NoCall

Init ==
    /\ argv \in {<<InPath, OutPath>>, <<InPath>>, <<JsonPath, OutPath>>}
    /\ \E table \in Tables : fs = (InPath :> to_csv(table))
    /\ Idle

Spec == Init /\ [][Next]_vars

--------------------------------------------------------------------------
(* Inputs of main: the command lines over the sampled paths, two tables    *)

OutputPaths ==
    { OutPath,
      <<"o", "u", "t">>,
      <<"o", "u", "t", ".", "t", "x", "t">>,
      <<"o", "u", "t", ".", "C", "S", "V">>,
      DotCsv \o <<"/", "o">> \o DotCsv,
      DotCsv \o <<"/", "o">>,
      InPath }

InputPaths == {InPath, JsonPath}

MainTables ==
    { << [industry_type |-> Cell(SoftwareLabel), revenue |-> Cell(10000000),
          employee_count |-> NaN, net_profit |-> NaN] >>,
      << [industry_type |-> NaN, revenue |-> Cell(1070000),
          employee_count |-> NaN, net_profit |-> Cell(-5000)] >> }

InitMain ==
    /\ argv \in {<<>>} \cup {<<i>> : i \in InputPaths}
                \cup {<<i, o>> : i \in InputPaths, o \in OutputPaths}
    /\ \E table \in MainTables : fs = (InPath :> to_csv(table))
    /\ Idle

SpecMain == InitMain /\ [][Next]_vars

--------------------------------------------------------------------------
(* Direct calls of the estimators *)

MaxRevenueSteps == 40

Revenues == {k * 30000 : k \in (-MaxRevenueSteps)..MaxRevenueSteps}

GroupArgs == GroupNames \cup {"QiTa"}

AssetArgs == {None, NaNValue, Num(0), Num(1000), Num(-400)}

ProfitArgs == {None, NaNValue, Num(0), Num(50), Num(-20)}

InitEstimate ==
    /\ argv = <<>>
    /\ fs = <<>>
    /\ pc = "call"
    /\ df = <<>>
    /\ idx = 0
    /\ log = EmptyLog
    /\ run = 1
    /\ call \in [fn : {"none"}, revenue : Revenues, industry_group : GroupArgs,
                  total_assets : AssetArgs, net_profit : ProfitArgs]

CallEstimateEmployees ==
    /\ pc = "call"
    /\ call.fn = "none"
    /\ call' = [fn |-> "estimate_employees", revenue |-> call.revenue,
                industry_group |-> call.industry_group,
                result |-> estimate_employees(call.revenue, call.industry_group)]
    /\ UNCHANGED <<argv, fs, pc, df, idx, log, run>>

CallEstimateProfit ==
    /\ pc = "call"
    /\ call.fn = "none"
    /\ call' = [fn |-> "estimate_profit", revenue |-> call.revenue,
                industry_group |-> call.industry_group,
                result |-> estimate_profit(call.revenue, call.industry_group)]
    /\ UNCHANGED <<argv, fs, pc, df, idx, log, run>>

CallEstimateFinancialRatios ==
    /\ pc = "call"
    /\ call.fn = "none"
    /\ call' = [call EXCEPT !.fn = "estimate_financial_ratios"] @@
                [result |-> estimate_financial_ratios(call.total_assets,
                                call.net_profit, Num(call.revenue),
                                call.industry_group)]
    /\ UNCHANGED <<argv, fs, pc, df, idx, log, run>>

NextEstimate ==
    \/ CallEstimateEmployees
    \/ CallEstimateProfit
    \/ CallEstimateFinancialRatios

SpecEstimate == InitEstimate /\ [][NextEstimate]_vars

\* the enhancer's runs together with the direct calls of the estimators
SpecAll == (Init \/ InitEstimate) /\ [][Next \/ NextEstimate]_vars

--------------------------------------------------------------------------
(* What the claims speak of *)

FillFields == {"employee_count", "net_profit"}

\* enhance_csv_data is running or has returned
Started == pc \in {"loop", "raised", "report", "exit0"}

\* enhance_csv_data has returned its log
Returned == pc \in {"report", "exit0"}

\* the table of the input file (no step of Spec writes the input path)
Original == read_csv(fs[argv[1]])

\* the table of the output file
Output == read_csv(fs[argv[2]])

Unset(table, col) == Cardinality({i \in DOMAIN table : table[i][col] = <<>>})

Entry(dict, key) == IF key \in DOMAIN dict THEN dict[key] ELSE 0

FilledRows(field) ==
    {i \in DOMAIN df : Original[i][field] = <<>> /\ df[i][field] /= <<>>}

Estimate(field, revenue, industry_group) ==
    IF field = "employee_count"
    THEN estimate_employees(revenue, industry_group)
    ELSE estimate_profit(revenue, industry_group)

\* Python's round(n / d), d > 0: to the nearest integer, a tie to the even one
Round(n, d) ==
    LET q == n \div d
        r == n % d
    IN  IF 2 * r < d THEN q
        ELSE IF 2 * r > d THEN q + 1
        ELSE IF q % 2 = 0 THEN q ELSE q + 1

--------------------------------------------------------------------------
(* Claims *)

\* C1: after enhance_csv_data, employee_count and net_profit are missing in
\* the output exactly where they were missing and revenue is missing too, a
\* filled cell holds the estimator's value for the row's revenue and group,
\* and no error is raised for a row that lacks revenue.
C1_FillOrLeaveMissing ==
    /\ pc = "raised" => ~isna(df[idx]["revenue"])
    /\ pc = "report" =>
          \A i \in DOMAIN Original : \A f \in FillFields :
              LET row == Original[i]
              IN  /\ isna(Output[i][f]) <=> (isna(row[f]) /\ isna(row["revenue"]))
                  /\ (isna(row[f]) /\ ~isna(row["revenue"])) =>
                        Output[i][f] =
                            Cell(Estimate(f, ValueOf(row["revenue"]),
                                     classify_industry_group(
                                         ValueOf(row["industry_type"]))))

\* C2: a field is in enhanced_fields, and has a method, exactly when some row
\* had it filled; no field is listed twice; fields_enhanced is the number of
\* such fields; a table without missing values has no enhanced field.
C2_EnhancedFieldsExact ==
    Returned =>
        /\ \A f \in ColumnSet :
              /\ f \in Range(log.enhanced_fields) <=> FilledRows(f) /= {}
              /\ f \in DOMAIN log.enhancement_methods <=> FilledRows(f) /= {}
        /\ Cardinality(Range(log.enhanced_fields)) = Len(log.enhanced_fields)
        /\ log.improvement_summary.fields_enhanced =
              Cardinality({f \in ColumnSet : FilledRows(f) /= {}})
        /\ (\A c \in ColumnSet : Unset(Original, c) = 0) =>
              /\ log.enhanced_fields = <<>>
              /\ log.improvement_summary.fields_enhanced = 0

C2_Witness ==
    /\ Returned
    /\ Cardinality(FilledRows("employee_count")) >= 2
    /\ FilledRows("net_profit") = {}
    /\ log.enhanced_fields = <<"employee_count">>

C4_Idempotent ==
    (run = 2 /\ Returned) =>
        /\ df = Original
        /\ pc = "report" => Output = Original
        /\ (\A f \in FillFields : Unset(Original, f) = 0) =>
              /\ log.enhanced_fields = <<>>
              /\ log.improvement_summary.fields_enhanced = 0

C4_Witness ==
    /\ run = 2
    /\ pc = "report"
    /\ \A f \in FillFields : Unset(Original, f) = 0
    /\ \E i \in DOMAIN df : \A f \in FillFields : read_csv(fs[InPath])[i][f] = <<>>

\* C5: for every row the loop reaches, classification raises no error and
\* returns one of the five group names, also when the label is absent.
C5_ClassifyNeverRaises ==
    (pc \in {"loop", "raised"} /\ idx <= Len(df)) =>
        /\ ~ClassifyRaises(df[idx]["industry_type"])
        /\ pc /= "raised"
        /\ classify_industry_group(ValueOf(df[idx]["industry_type"])) \in GroupNames

\* C6: estimate_employees returns max(round(revenue / 1,000,000 *
\* employees_per_million), 10), the product rounded to the nearest integer.
C6_EmployeesRounded ==
    call.fn = "estimate_employees" =>
        call.result =
            Max(Round(call.revenue
                        * BenchmarkOf(call.industry_group).employee_per_million_revenue,
                      Million),
                FloorEmployees)

\* C7: estimate_employees returns an integer >= 10 for every revenue and
\* every group name, known or not, and so every employee_count the enhancer
\* writes is >= 10.
C7_EmployeesAtLeastTen ==
    /\ call.fn = "estimate_employees" =>
          /\ call.result \in Int
          /\ call.result >= 10
    /\ Started =>
          \A i \in FilledRows("employee_count") :
              /\ ValueOf(df[i]["employee_count"]) \in Int
              /\ ValueOf(df[i]["employee_count"]) >= 10

C7_Witness ==
    /\ call.fn = "estimate_employees"
    /\ call.revenue < 0
    /\ call.industry_group \notin GroupNames
    /\ call.result = 10

C9_RoaFromInputs ==
    call.fn = "estimate_financial_ratios" =>
        LET benchmark == BenchmarkOf(call.industry_group)
            both == call.net_profit.kind = "num" /\ call.total_assets.kind = "num"
        IN  /\ (both /\ call.total_assets.v /= 0) =>
                  RatioEq(call.result.roa,
                          Frac(call.net_profit.v, call.total_assets.v))
            /\ RatioEq(call.result.debt_ratio, Frac(benchmark.debt_ratio, 100))

\* C10: the report goes to a path other than the output path, so that when
\* main finishes the output path still holds the enhanced table.
C10_ReportKeepsOutput ==
    /\ pc = "report" => ReportPath(argv[2]) /= argv[2]
    /\ pc = "exit0" =>
          /\ fs[argv[2]].kind = "csv"
          /\ fs[argv[2]] = to_csv(df)

====
